---- MODULE Spec2Model ----
(***************************************************************************)
(* State-machine model of src/app/components/FaceTracker.tsx: the React    *)
(* component that records the annotated camera feed and keeps recordings   *)
(* in IndexedDB (object store 'videos') and localStorage ('savedVideos').  *)
(*                                                                         *)
(* Every action is one callback of the single-threaded event loop (a click *)
(* handler, a timer tick, an IndexedDB / media event, a promise            *)
(* continuation) together with the re-render it causes.  A callback that   *)
(* was created in an earlier render keeps the state values of that render  *)
(* (useCallback closures); those captured values are part of the state.    *)
(***************************************************************************)
EXTENDS Integers, Sequences, FiniteSets, TLC

\* ------------------------------------------------------------------ bounds
MaxClock == 2
MaxSaves == 2
MaxDeletes == 1
MaxLoads == 1
MaxGets == 1
NumOld == 1
MaxUrls == 2
MaxSessions == 2
MaxTicks == 2
MaxStreams == 2
MaxRetries == 1
MaxDetections == 2
MaxLandmarks == 2
MaxDuration == 30
NumLegacy == 3

\* ------------------------------------------------------------------- state
VARIABLES
  now,              \* Date.now()
  objectStore,      \* IndexedDB 'FaceTrackerDB' / 'videos': set of records, keyPath id
  savedVideosLS,    \* localStorage 'savedVideos' (the JSON list, by value)
  recordedVideos,   \* useState recordedVideos (elements are heap objects: field obj)
  selectedVideo,    \* useState selectedVideo: 0 = null, else a blob URL
  liveUrls,         \* blob URLs created by URL.createObjectURL and not revoked
  error,            \* useState error: "" = null
  successMessage,   \* useState successMessage: "" = null
  saves, nSaves,    \* saveRecording calls (closure variables of each call)
  loads,            \* loadSavedVideos calls whose backfill callbacks are pending
  idb,              \* IndexedDB requests in the order of their indexedDB.open
  deleted,          \* ids whose deleteVideo has completed (history)
  last,             \* the callback that ran last: [op, arg]
  mounted,          \* the component is mounted (its refs to DOM elements are set)
  isLoading,        \* useState isLoading
  faceDetectionRef, \* 0 = null, else the candidate whose instance is installed
  fdRuns,           \* initializeFaceDetection calls in flight: [cand, thenLoad]
  nRetries,         \* clicks on Retry so far
  gumPending,       \* getUserMedia requests of initializeCamera in flight
  metaWait,         \* streams whose initializeCamera awaits loadedmetadata
  streams,          \* device streams acquired: the state of their two tracks
  streamRef,        \* 0 = null, else a stream
  videoEl,          \* the video element: onloadedmetadata handler, event pending
  compositeStreamRef, \* 0 = null, else the stream whose audio track it carries
  cameraRef,        \* 0 = null, else a Camera (named by its stream)
  cameras,          \* Cameras whose capture loop is running
  isRecording,      \* useState isRecording
  recordingDuration,\* useState recordingDuration
  mediaRecorderRef, \* 0 = null, else a recorder session
  recordedChunks,   \* recordedChunksRef.current
  intervalRef,      \* recordingIntervalRef.current: 0 = null, else a timer
  intervals,        \* duration timers that are running
  recorders,        \* MediaRecorder sessions: state, closure of onstop, ticks seen
  nSessions,        \* recorder sessions started so far
  faceDetected,     \* useState faceDetected
  overlay,          \* the overlay canvas: rectangles and points on it
  composite,        \* the composite canvas: video frame, rectangles, points
  lastResults,      \* the DetectionResult processed last; had the overlay shapes before
  loaded,           \* loadSavedVideos has run since the mount (history)
  thumb             \* the video element and canvas of one generateThumbnail call

storeVars == <<now, objectStore, savedVideosLS, recordedVideos, selectedVideo,
               liveUrls, successMessage, saves, nSaves, loads, idb, deleted>>

camVars == <<mounted, isLoading, faceDetectionRef, fdRuns, nRetries, gumPending,
             metaWait, streams, streamRef, videoEl, compositeStreamRef, cameraRef,
             cameras>>

recVars == <<isRecording, recordingDuration, mediaRecorderRef, recordedChunks,
             intervalRef, intervals, recorders, nSessions>>

drawVars == <<faceDetected, overlay, composite, lastResults>>

vars == <<storeVars, error, last, camVars, recVars, drawVars, loaded, thumb>>

\* ------------------------------------------------------------ data helpers
NoObj == <<0, 0>>
NoBlob == [chunks |-> <<>>, decodable |-> FALSE]
NoRecord == [id |-> 0, name |-> 0, timestamp |-> 0, duration |-> 0, size |-> 0,
             data |-> NoBlob]

Ids(list) == {list[i].id : i \in DOMAIN list}
Keys(store) == {r.id : r \in store}
RecordOf(store, id) == CHOOSE r \in store : r.id = id
RemoveAt(q, i) == [j \in 1..(Len(q) - 1) |-> IF j < i THEN q[j] ELSE q[j + 1]]

\* new Blob(chunks, {type: 'video/webm'}): blob.size is the sum of the chunk sizes
Blob(chunks, decodable) == [chunks |-> chunks, decodable |-> decodable]
BlobSize(blob) == Len(blob.chunks)

\* `Recording_${new Date().toLocaleString()}`: the date to the second
LocaleString(t) == t \div 1000

\* JSON.stringify(list): the RecordedVideo fields by value
Stringify(list) ==
  [i \in 1..Len(list) |->
     [id |-> list[i].id, name |-> list[i].name, timestamp |-> list[i].timestamp,
      duration |-> list[i].duration, size |-> list[i].size,
      thumbnail |-> list[i].thumbnail]]

\* JSON.parse(localStorage.getItem('savedVideos') || '[]'): fresh objects; the
\* objects a loadSavedVideos call L parses are named <<L, i>> because its
\* backfill callbacks mutate them in place; other parses are never mutated.
Parse(text, L) ==
  [i \in 1..Len(text) |->
     [id |-> text[i].id, name |-> text[i].name, timestamp |-> text[i].timestamp,
      duration |-> text[i].duration, size |-> text[i].size,
      thumbnail |-> text[i].thumbnail,
      obj |-> IF L = 0 THEN NoObj ELSE <<L, i>>]]

\* savedVideos[index].thumbnail = thumbnail, seen through every reference to
\* the object o
SetThumb(list, o, t) ==
  [i \in 1..Len(list) |->
     IF list[i].obj = o /\ o # NoObj THEN [list[i] EXCEPT !.thumbnail = t]
     ELSE list[i]]

\* savedVideos.findIndex(v => v.id === id): 0 stands for -1
FindIndex(list, id) ==
  IF id \in Ids(list) THEN CHOOSE i \in DOMAIN list :
                              /\ list[i].id = id
                              /\ \A j \in 1..(i - 1) : list[j].id # id
  ELSE 0

\* generateThumbnail(blob): resolves with a JPEG data URL when the payload
\* decodes as video, rejects on the video element's error event
generateThumbnail(blob) ==
  IF blob.decodable THEN [ok |-> TRUE, url |-> "data:image/jpeg"]
  ELSE [ok |-> FALSE, url |-> ""]

\* recordings of an earlier page load: ids of earlier clock values
OldId(k) == 1 - k
OldRecord(k, decodable) ==
  [id |-> OldId(k), name |-> 0, timestamp |-> OldId(k), duration |-> 0, size |-> 1,
   data |-> Blob(<<0>>, decodable)]
OldEntry(k, thumbnail) ==
  [id |-> OldId(k), name |-> 0, timestamp |-> OldId(k), duration |-> 0, size |-> 1,
   thumbnail |-> thumbnail]

IdleSave == [pc |-> "none", videoId |-> 0, blob |-> NoBlob, duration |-> 0,
             thumbnail |-> "", videoRecord |-> NoRecord, session |-> 0]
IdleLoad == [savedVideos |-> <<>>, bf |-> <<>>]

\* one IndexedDB request chain: indexedDB.open, its transaction, its callback
Request(kind, pc, id, n, k, captured) ==
  [kind |-> kind, pc |-> pc, id |-> id, n |-> n, k |-> k, captured |-> captured]

\* IndexedDB serves the open requests of one database in order, runs
\* transactions of overlapping scope in the order of their creation and
\* delivers their events in order.
CanOpen(i) ==
  /\ i \in DOMAIN idb
  /\ idb[i].pc = "open"
  /\ \A j \in 1..(i - 1) : idb[j].pc # "open"
CanRun(i) ==
  /\ i \in DOMAIN idb
  /\ idb[i].pc = "tx"
  /\ \A j \in 1..(i - 1) : idb[j].pc = "complete"
\* the head of the queue, whether or not its transaction has committed
CanCompleteEarly(i) ==
  /\ i = 1
  /\ i \in DOMAIN idb
  /\ idb[i].pc \in {"tx", "complete"}

CanComplete(i) ==
  /\ i = 1
  /\ i \in DOMAIN idb
  /\ idb[i].pc = "complete"
\* a readonly get and its success event, taken at the time of the event
CanReturn(i) ==
  /\ i = 1
  /\ i \in DOMAIN idb
  /\ idb[i].pc = "tx"

InFlight(kind) == Cardinality({i \in DOMAIN idb : idb[i].kind = kind})

\* last names the callback that ran last when it ended an operation of the
\* component (a save, a delete, a list, a get, a start, a stop), else nothing
NoLast == [op |-> "", arg |-> 0]
SetLast(op, arg) == last' = [op |-> op, arg |-> arg]
ClearLast == last' = NoLast

\* ------------------------------------------------------------------- Init
\* The stores of a browser profile: empty, or holding recordings of an
\* earlier page load, saved with a thumbnail or (by an earlier version of
\* the component) without one.
InitStore ==
  /\ now = 1
  /\ \E n \in 0..NumOld : \E kind \in {"thumbnail", "legacy", "undecodable"} :
       /\ n = 0 => kind = "thumbnail"
       /\ objectStore = {OldRecord(k, kind # "undecodable") : k \in 1..n}
       /\ savedVideosLS =
            [k \in 1..n |->
               OldEntry(k, IF kind = "thumbnail" THEN "data:image/jpeg" ELSE "")]
  /\ recordedVideos = <<>>
  /\ selectedVideo = 0
  /\ liveUrls = {}
  /\ successMessage = ""
  /\ saves = [s \in 1..MaxSaves |-> IdleSave]
  /\ nSaves = 0
  /\ loads = [l \in 1..MaxLoads |-> IdleLoad]
  /\ idb = <<>>
  /\ deleted = {}

\* ------------------------------------------------------------ saveRecording
\* the buffer test replaced by one that never holds
AlwaysRecorded(chunks) == FALSE

\* recordedChunksRef.current.length === 0
NothingRecorded(chunks) == Len(chunks) = 0

\* saveRecording() up to its first await: the chunk buffer and the duration
\* of the closure are its inputs (session: the recorder that called, history)
saveRecording(chunks, capturedDuration, decodable, session) ==
  IF NothingRecorded(chunks)
  THEN UNCHANGED <<saves, nSaves>>
  ELSE /\ nSaves < MaxSaves
       /\ nSaves' = nSaves + 1
       /\ saves' = [saves EXCEPT ![nSaves + 1] =
                      [pc |-> "thumb", videoId |-> now,
                       blob |-> Blob(chunks, decodable),
                       duration |-> capturedDuration,
                       thumbnail |-> "", videoRecord |-> NoRecord,
                       session |-> session]]

\* await generateThumbnail(blob) settles: indexedDB.open is requested, or the
\* catch block reports the failure
SaveThumbnail(s) ==
  /\ saves[s].pc = "thumb"
  /\ LET t == generateThumbnail(saves[s].blob) IN
       IF t.ok
       THEN /\ saves' = [saves EXCEPT ![s].pc = "idb", ![s].thumbnail = t.url]
            /\ idb' = Append(idb, Request("save", "open", saves[s].videoId, s, 0, <<>>))
            /\ UNCHANGED error
       ELSE /\ saves' = [saves EXCEPT ![s] = IdleSave]
            /\ error' = "Failed to save recording"
            /\ UNCHANGED idb
  /\ IF generateThumbnail(saves[s].blob).ok THEN ClearLast
     ELSE SetLast("saveFailed", saves[s].videoId)
  /\ UNCHANGED <<now, objectStore, savedVideosLS, recordedVideos, selectedVideo,
                 liveUrls, successMessage, nSaves, loads, deleted,
                 camVars, recVars>>
  /\ UNCHANGED <<drawVars, loaded, thumb>>

\* the videoRecord built by request.onsuccess
SaveRecordOf(s) ==
  [id |-> saves[s].videoId, name |-> LocaleString(now), timestamp |-> now,
   duration |-> saves[s].duration, size |-> BlobSize(saves[s].blob),
   data |-> saves[s].blob]

\* request.onsuccess: builds videoRecord and issues store.add(videoRecord)
SaveOpenSuccess(i) ==
  /\ CanOpen(i)
  /\ idb[i].kind = "save"
  /\ saves' = [saves EXCEPT ![idb[i].n].videoRecord = SaveRecordOf(idb[i].n)]
  /\ idb' = [idb EXCEPT ![i].pc = "tx"]
  /\ ClearLast
  /\ UNCHANGED <<now, objectStore, savedVideosLS, recordedVideos, selectedVideo,
                 liveUrls, successMessage, nSaves, loads, error, deleted,
                 camVars, recVars>>
  /\ UNCHANGED <<drawVars, loaded, thumb>>

\* the readwrite transaction runs: add() of an existing key fails with a
\* ConstraintError, add() may fail for lack of quota; the transaction then
\* aborts, oncomplete never fires, and no handler of the code is called
SaveCommit(i, quota) ==
  /\ CanRun(i)
  /\ idb[i].kind = "save"
  /\ IF idb[i].id \in Keys(objectStore) \/ ~quota
     THEN /\ saves' = [saves EXCEPT ![idb[i].n] = IdleSave]
          /\ idb' = RemoveAt(idb, i)
          /\ SetLast("addFailed", idb[i].id)
          /\ UNCHANGED objectStore
     ELSE /\ objectStore' = objectStore \cup {saves[idb[i].n].videoRecord}
          /\ idb' = [idb EXCEPT ![i].pc = "complete"]
          /\ ClearLast
          /\ UNCHANGED saves
  /\ UNCHANGED <<now, savedVideosLS, recordedVideos, selectedVideo,
                 liveUrls, successMessage, nSaves, loads, error, deleted,
                 camVars, recVars>>
  /\ UNCHANGED <<drawVars, loaded, thumb>>

\* the metadata record pushed by transaction.oncomplete
SaveMetadataOf(s) ==
  [id |-> saves[s].videoId, name |-> saves[s].videoRecord.name,
   timestamp |-> saves[s].videoRecord.timestamp,
   duration |-> saves[s].videoRecord.duration,
   size |-> saves[s].videoRecord.size,
   thumbnail |-> saves[s].thumbnail, obj |-> NoObj]

\* transaction.oncomplete of saveRecording
SaveOnComplete(i) ==
  /\ CanComplete(i)
  /\ idb[i].kind = "save"
  /\ LET savedVideos == Append(Parse(savedVideosLS, 0), SaveMetadataOf(idb[i].n)) IN
       /\ savedVideosLS' = Stringify(savedVideos)
       /\ recordedVideos' = savedVideos
  /\ saves' = [saves EXCEPT ![idb[i].n] = IdleSave]
  /\ idb' = RemoveAt(idb, i)
  /\ SetLast("saveOnComplete", idb[i].id)
  /\ UNCHANGED <<now, objectStore, selectedVideo, liveUrls, successMessage,
                 nSaves, loads, error, deleted,
                 camVars, recVars>>
  /\ UNCHANGED <<drawVars, loaded, thumb>>

\* -------------------------------------------------------------- deleteVideo
\* click on Delete of a listed video: the callback of this render holds this
\* render's recordedVideos; indexedDB.open is requested
DeleteClick(id) ==
  /\ id \in Ids(recordedVideos)
  /\ InFlight("delete") < MaxDeletes
  /\ idb' = Append(idb, Request("delete", "tx", id, 0, 0, recordedVideos))
  /\ ClearLast
  /\ UNCHANGED <<now, objectStore, savedVideosLS, recordedVideos, selectedVideo,
                 liveUrls, successMessage, saves, nSaves, loads, error, deleted,
                 camVars, recVars>>
  /\ UNCHANGED <<drawVars, loaded, thumb>>

\* request.onsuccess and the readwrite transaction with store.delete(videoId)
DeleteCommit(i) ==
  /\ CanRun(i)
  /\ idb[i].kind = "delete"
  /\ objectStore' = {r \in objectStore : r.id # idb[i].id}
  /\ idb' = [idb EXCEPT ![i].pc = "complete"]
  /\ ClearLast
  /\ UNCHANGED <<now, savedVideosLS, recordedVideos, selectedVideo,
                 liveUrls, successMessage, saves, nSaves, loads, error, deleted,
                 camVars, recVars>>
  /\ UNCHANGED <<drawVars, loaded, thumb>>

\* recordedVideos.filter(v => v.id !== videoId) on the captured list
DeleteFilter(captured, id) == SelectSeq(captured, LAMBDA v : v.id # id)

\* the in-memory list left as it was captured
DeleteShownStale(captured, id) == captured

\* setRecordedVideos(savedVideos) of deleteVideo: the filtered list
DeleteShown(captured, id) == DeleteFilter(captured, id)

\* transaction.oncomplete of deleteVideo
DeleteOnComplete(i) ==
  /\ CanComplete(i)
  /\ idb[i].kind = "delete"
  /\ LET savedVideos == DeleteFilter(idb[i].captured, idb[i].id) IN
       /\ savedVideosLS' = Stringify(savedVideos)
       /\ recordedVideos' = DeleteShown(idb[i].captured, idb[i].id)
  /\ idb' = RemoveAt(idb, i)
  /\ deleted' = deleted \cup {idb[i].id}
  /\ SetLast("deleteOnComplete", idb[i].id)
  /\ UNCHANGED <<now, objectStore, selectedVideo, liveUrls, successMessage,
                 saves, nSaves, loads, error,
                 camVars, recVars>>
  /\ UNCHANGED <<drawVars, loaded, thumb>>

\* ---------------------------------------------------------- loadSavedVideos
\* a loadSavedVideos call whose backfill callbacks have all run holds no
\* reference any more: its objects are renamed NoObj (nothing can mutate them)
Retire(list, L) ==
  [i \in 1..Len(list) |->
     IF list[i].obj[1] = L THEN [list[i] EXCEPT !.obj = NoObj] ELSE list[i]]

RetireAll(q, L) ==
  [i \in 1..Len(q) |-> [q[i] EXCEPT !.captured = Retire(q[i].captured, L)]]

SetThumbAll(q, o, t) ==
  [i \in 1..Len(q) |-> [q[i] EXCEPT !.captured = SetThumb(q[i].captured, o, t)]]

NeedingThumbnails(savedVideos) == SelectSeq(savedVideos, LAMBDA v : v.thumbnail = "")

FreeLoad == CHOOSE L \in 1..MaxLoads :
              /\ loads[L] = IdleLoad
              /\ \A M \in 1..(L - 1) : loads[M] # IdleLoad

\* loadSavedVideos(): parses the list, requests indexedDB.open once per video
\* without thumbnail, and sets the in-memory list
loadSavedVideos ==
  LET need == NeedingThumbnails(Parse(savedVideosLS, 0)) IN
    IF Len(need) = 0
    THEN /\ recordedVideos' = Parse(savedVideosLS, 0)
         /\ loaded' = TRUE
         /\ UNCHANGED <<loads, idb>>
    ELSE /\ \E L \in 1..MaxLoads : loads[L] = IdleLoad
         /\ loaded' = TRUE
         /\ LET L == FreeLoad
                savedVideos == Parse(savedVideosLS, L)
            IN  /\ loads' = [loads EXCEPT ![L] =
                               [savedVideos |-> savedVideos,
                                bf |-> [k \in 1..Len(need) |->
                                          [pc |-> "get", id |-> need[k].id,
                                           data |-> NoBlob]]]]
                /\ idb' = idb \o [k \in 1..Len(need) |->
                                    Request("backfill", "tx", need[k].id, L, k, <<>>)]
                /\ recordedVideos' = savedVideos

\* every callback taken for the last one of its call
AnyIsLast(L, k) == TRUE

OthersDone(L, k) ==
  \A j \in DOMAIN loads[L].bf : j # k => loads[L].bf[j].pc = "done"

\* one backfill callback of call L ends, leaving savedVideos as the call's
\* list, rv as the in-memory list and q as the pending requests
EndBackfill(L, k, savedVideos, rv, q) ==
  IF OthersDone(L, k)
  THEN /\ loads' = [loads EXCEPT ![L] = IdleLoad]
       /\ recordedVideos' = Retire(rv, L)
       /\ idb' = RetireAll(q, L)
  ELSE /\ loads' = [loads EXCEPT ![L].savedVideos = savedVideos,
                                 ![L].bf[k].pc = "done",
                                 ![L].bf[k].data = NoBlob]
       /\ recordedVideos' = rv
       /\ idb' = q

\* request.onsuccess, the readonly transaction and getRequest.onsuccess of one
\* backfill: without record (or payload) the callback does nothing
BackfillGet(i) ==
  /\ CanReturn(i)
  /\ idb[i].kind = "backfill"
  /\ LET L == idb[i].n
         k == idb[i].k
     IN  IF idb[i].id \in Keys(objectStore)
         THEN /\ loads' = [loads EXCEPT
                             ![L].bf[k].pc = "thumb",
                             ![L].bf[k].data = RecordOf(objectStore, idb[i].id).data]
              /\ idb' = RemoveAt(idb, i)
              /\ UNCHANGED recordedVideos
         ELSE EndBackfill(L, k, loads[L].savedVideos, recordedVideos,
                          RemoveAt(idb, i))
  /\ ClearLast
  /\ UNCHANGED <<now, objectStore, savedVideosLS, selectedVideo, liveUrls,
                 successMessage, saves, nSaves, error, deleted,
                 camVars, recVars>>
  /\ UNCHANGED <<drawVars, loaded, thumb>>

\* await generateThumbnail(videoRecord.data) settles inside getRequest.onsuccess
BackfillThumbnail(L, k) ==
  /\ k \in DOMAIN loads[L].bf
  /\ loads[L].bf[k].pc = "thumb"
  /\ LET t == generateThumbnail(loads[L].bf[k].data)
         index == FindIndex(loads[L].savedVideos, loads[L].bf[k].id)
         o == IF index # 0 THEN loads[L].savedVideos[index].obj ELSE NoObj
         savedVideos == SetThumb(loads[L].savedVideos, o, t.url)
     IN  IF t.ok
         THEN /\ savedVideosLS' = Stringify(savedVideos)
              /\ EndBackfill(L, k, savedVideos, savedVideos,
                             SetThumbAll(idb, o, t.url))
         ELSE /\ UNCHANGED savedVideosLS
              /\ EndBackfill(L, k, loads[L].savedVideos, recordedVideos, idb)
  /\ IF generateThumbnail(loads[L].bf[k].data).ok
     THEN SetLast("backfilled", loads[L].bf[k].id) ELSE ClearLast
  /\ UNCHANGED <<now, objectStore, selectedVideo, liveUrls, successMessage,
                 saves, nSaves, error, deleted,
                 camVars, recVars>>
  /\ UNCHANGED <<drawVars, loaded, thumb>>

\* ------------------------------------------------ playVideo, downloadVideo
\* click on Play or Download of a listed video: indexedDB.open is requested
GetClick(kind, id) ==
  /\ id \in Ids(recordedVideos)
  /\ InFlight("play") + InFlight("download") < MaxGets
  /\ kind = "play" => Cardinality(liveUrls) + InFlight("play") < MaxUrls
  /\ idb' = Append(idb, Request(kind, "tx", id, 0, 0, <<>>))
  /\ ClearLast
  /\ UNCHANGED <<now, objectStore, savedVideosLS, recordedVideos, selectedVideo,
                 liveUrls, successMessage, saves, nSaves, loads, error, deleted,
                 camVars, recVars>>
  /\ UNCHANGED <<drawVars, loaded, thumb>>

\* what getRequest.onsuccess does: with a record, playVideo selects a new blob
\* URL and downloadVideo creates, clicks and revokes one; without a record
\* (getRequest.result undefined) neither does anything
GetOutcome(kind, found) ==
  IF ~found THEN "nothing"
  ELSE IF kind = "play" THEN "selected" ELSE "downloaded"

NewUrl == 1 + Cardinality(liveUrls)

\* request.onsuccess, the readonly transaction and getRequest.onsuccess
GetSuccess(i) ==
  /\ CanReturn(i)
  /\ idb[i].kind \in {"play", "download"}
  /\ LET outcome == GetOutcome(idb[i].kind, idb[i].id \in Keys(objectStore)) IN
       /\ liveUrls' = IF outcome = "selected" THEN liveUrls \cup {NewUrl}
                      ELSE liveUrls
       /\ selectedVideo' = IF outcome = "selected" THEN NewUrl ELSE selectedVideo
       /\ successMessage' = IF outcome = "downloaded" THEN "Downloaded"
                            ELSE successMessage
       /\ last' = [op |-> outcome, arg |-> idb[i].id]
  /\ idb' = RemoveAt(idb, i)
  /\ UNCHANGED <<now, objectStore, savedVideosLS, recordedVideos, saves, nSaves,
                 loads, error, deleted,
                 camVars, recVars>>
  /\ UNCHANGED <<drawVars, loaded, thumb>>

\* Close button or onEnded of the playback panel: setSelectedVideo(null)
ClosePlayback ==
  /\ selectedVideo # 0
  /\ selectedVideo' = 0
  /\ ClearLast
  /\ UNCHANGED <<now, objectStore, savedVideosLS, recordedVideos, liveUrls,
                 successMessage, saves, nSaves, loads, idb, error, deleted,
                 camVars, recVars>>
  /\ UNCHANGED <<drawVars, loaded, thumb>>

\* setTimeout(() => setSuccessMessage(null), 3000)
SuccessTimeout ==
  /\ successMessage # ""
  /\ successMessage' = ""
  /\ ClearLast
  /\ UNCHANGED <<now, objectStore, savedVideosLS, recordedVideos, selectedVideo,
                 liveUrls, saves, nSaves, loads, idb, error, deleted,
                 camVars, recVars>>
  /\ UNCHANGED <<drawVars, loaded, thumb>>

\* the clock advances between callbacks
ClockTick ==
  /\ now < MaxClock
  /\ now' = now + 1
  /\ UNCHANGED <<objectStore, savedVideosLS, recordedVideos, selectedVideo,
                 liveUrls, successMessage, saves, nSaves, loads, idb, error, last, deleted,
                 camVars, recVars>>
  /\ UNCHANGED <<drawVars, loaded, thumb>>

\* --------------------------------- initializeFaceDetection, initializeCamera
NumCandidates == 3

FDError == "Failed to initialize face detection"
CameraError == "Failed to access camera"

LiveStream == [video |-> "live", audio |-> "live"]
\* the first candidate skipped
SkipFirst(thenLoad) == [cand |-> 2, thenLoad |-> thenLoad]

\* a call of initializeFaceDetection at the head of cdnUrls
NewRun(thenLoad) == [cand |-> 1, thenLoad |-> thenLoad]

\* the calls in flight have no order among them: fdRuns is kept sorted by
\* candidate and caller
RunKey(run) == 2 * run.cand + (IF run.thenLoad THEN 1 ELSE 0)
AddRun(q, run) ==
  LET before == SelectSeq(q, LAMBDA r : RunKey(r) <= RunKey(run))
      after == SelectSeq(q, LAMBDA r : RunKey(r) > RunKey(run))
  IN  before \o <<run>> \o after

\* isLoading cleared on success only
ClearOnSuccessOnly(ok) == ~ok

\* setIsLoading(false) on the success path and in the catch block
ClearLoading(ok) == FALSE

\* initializeFaceDetection() up to its first await; run from the
\* initialization effect it is followed by loadSavedVideos(), run from the
\* Retry button it is not.  isLoading becoming true re-runs the camera effect,
\* whose condition is then false.
initializeFaceDetection(thenLoad) ==
  /\ error' = ""
  /\ isLoading' = TRUE
  /\ fdRuns' = AddRun(fdRuns, NewRun(thenLoad))

\* await faceDetection.initialize() of candidate fdRuns[j].cand settles.  A
\* failure moves on to the next candidate; success, or failure of the last
\* candidate, ends the run: the ref is set on success only, isLoading is
\* cleared, init() goes on to loadSavedVideos(), and when isLoading changed the
\* camera effect runs: with an adapter in the ref and the elements mounted it
\* calls initializeCamera(), which clears the error and requests the device
\* (last.arg = 1 marks that it did).
FDAttempt(j, ok) ==
  /\ j \in DOMAIN fdRuns
  /\ LET run == fdRuns[j]
         fd == IF ok THEN run.cand ELSE faceDetectionRef
         err == IF ok THEN error ELSE FDError
         loading == ClearLoading(ok)
         cameraEffect == mounted /\ loading # isLoading /\ fd # 0 /\ ~loading
     IN  IF ~ok /\ run.cand < NumCandidates
         THEN /\ fdRuns' = AddRun(RemoveAt(fdRuns, j),
                                      [run EXCEPT !.cand = run.cand + 1])
              /\ UNCHANGED <<faceDetectionRef, isLoading, error, gumPending,
                             recordedVideos, loads, idb, last, loaded>>
         ELSE /\ fdRuns' = RemoveAt(fdRuns, j)
              /\ faceDetectionRef' = fd
              /\ isLoading' = loading
              /\ IF run.thenLoad THEN loadSavedVideos
                 ELSE UNCHANGED <<recordedVideos, loads, idb, loaded>>
              /\ IF cameraEffect
                 THEN /\ gumPending + Len(streams) < MaxStreams
                      /\ error' = ""
                      /\ gumPending' = gumPending + 1
                 ELSE /\ error' = err
                      /\ UNCHANGED gumPending
              /\ SetLast(IF ok THEN "fdReady" ELSE "fdFailed",
                         IF cameraEffect THEN 1 ELSE 0)
  /\ UNCHANGED <<now, objectStore, savedVideosLS, selectedVideo, liveUrls,
                 successMessage, saves, nSaves, deleted, mounted, nRetries,
                 metaWait, streams, streamRef, videoEl, compositeStreamRef,
                 cameraRef, cameras, recVars>>
  /\ UNCHANGED <<drawVars, thumb>>

\* the Retry button of the error banner
Retry ==
  /\ mounted
  /\ error # ""
  /\ nRetries < MaxRetries
  /\ nRetries' = nRetries + 1
  /\ initializeFaceDetection(FALSE)
  /\ ClearLast
  /\ UNCHANGED <<storeVars, mounted, faceDetectionRef, gumPending, metaWait,
                 streams, streamRef, videoEl, compositeStreamRef, cameraRef,
                 cameras, recVars>>
  /\ UNCHANGED <<drawVars, loaded, thumb>>

\* await getUserMedia settles.  Granted: the stream goes to streamRef and to
\* the video element, whose onloadedmetadata is replaced by this call's
\* resolver; after unmount videoRef.current is null and the assignment throws
\* into the catch block.  Refused: the catch block sets the error.
GumResolve(ok) ==
  /\ gumPending > 0
  /\ gumPending' = gumPending - 1
  /\ IF ok
     THEN LET n == Len(streams) + 1 IN
            /\ streams' = Append(streams, LiveStream)
            /\ streamRef' = n
            /\ IF mounted
               THEN /\ videoEl' = [handler |-> n, pending |-> TRUE]
                    /\ metaWait' = metaWait \cup {n}
                    /\ UNCHANGED error
               ELSE /\ error' = CameraError
                    /\ UNCHANGED <<videoEl, metaWait>>
     ELSE /\ error' = CameraError
          /\ UNCHANGED <<streams, streamRef, videoEl, metaWait>>
  /\ ClearLast
  /\ UNCHANGED <<storeVars, mounted, isLoading, faceDetectionRef, fdRuns,
                 nRetries, compositeStreamRef, cameraRef, cameras, recVars>>
  /\ UNCHANGED <<drawVars, loaded, thumb>>

\* loadedmetadata of the video element: the handler installed last resolves
\* its call, which captures the composite canvas, adds the audio track of its
\* stream, and creates and starts a Camera; after unmount the canvas ref is
\* null and captureStream throws into the catch block
LoadedMetadata ==
  /\ videoEl.pending
  /\ videoEl' = [videoEl EXCEPT !.pending = FALSE]
  /\ LET n == videoEl.handler IN
       IF n \in metaWait
       THEN /\ metaWait' = metaWait \ {n}
            /\ IF mounted
               THEN /\ compositeStreamRef' = n
                    /\ cameraRef' = n
                    /\ cameras' = cameras \cup {n}
                    /\ UNCHANGED error
               ELSE /\ error' = CameraError
                    /\ UNCHANGED <<compositeStreamRef, cameraRef, cameras>>
       ELSE UNCHANGED <<metaWait, compositeStreamRef, cameraRef, cameras, error>>
  /\ SetLast("cameraReady", videoEl.handler)
  /\ UNCHANGED <<storeVars, mounted, isLoading, faceDetectionRef, fdRuns,
                 nRetries, gumPending, streams, streamRef, recVars>>
  /\ UNCHANGED <<drawVars, loaded, thumb>>

\* track.stop() on every track of the stream in streamRef and of the composite
\* stream in compositeStreamRef (its audio track is the device stream's)
StopTracks(ss, sRef, cRef) ==
  [i \in 1..Len(ss) |->
     [video |-> IF i = sRef THEN "ended" ELSE ss[i].video,
      audio |-> IF i = sRef \/ i = cRef THEN "ended" ELSE ss[i].audio]]

\* a recorder whose stream has no live track left stops by itself
EndOfStream(rs, cRef) ==
  [r \in DOMAIN rs |->
     IF rs[r].state = "recording" /\ rs[r].stream = cRef /\ cRef # 0
     THEN [rs[r] EXCEPT !.state = "stopping"] ELSE rs[r]]

\* the cleanup effect at unmount: the refs to the elements become null
Teardown ==
  /\ mounted
  /\ mounted' = FALSE
  /\ cameras' = cameras \ {cameraRef}
  /\ streams' = StopTracks(streams, streamRef, compositeStreamRef)
  /\ intervals' = intervals \ {intervalRef}
  /\ recorders' = EndOfStream(recorders, compositeStreamRef)
  /\ SetLast("teardown", 0)
  /\ UNCHANGED <<storeVars, error, isLoading, faceDetectionRef, fdRuns, nRetries,
                 gumPending, metaWait, streamRef, videoEl, compositeStreamRef,
                 cameraRef, isRecording, recordingDuration, mediaRecorderRef,
                 recordedChunks, intervalRef, nSessions>>
  /\ UNCHANGED <<drawVars, loaded, thumb>>

\* ----------------------------------------------- startRecording, stopRecording
NoRecorder == [state |-> "none", capturedDuration |-> 0, stream |-> 0, ticks |-> 0]

\* the counter left as it is
KeepDuration(d) == d

\* setRecordingDuration(0)
ResetDuration(d) == 0

\* the stream test replaced by one that never holds
AlwaysReady(stream) == FALSE

\* !compositeStreamRef.current
NotReady(stream) == stream = 0

\* new MediaRecorder(...) with its two handlers: onstop calls the saveRecording
\* of the render in which startRecording was created, which holds that
\* render's recordingDuration
NewRecorder(state) ==
  [state |-> state, capturedDuration |-> recordingDuration,
   stream |-> compositeStreamRef, ticks |-> 0]

\* startRecording() as a handler (the disabled attribute of its button is not
\* part of it): without composite stream only the error is set; else
\* the MediaRecorder constructor or start() may throw into the catch block.
\* isRecording changing re-creates onResults and initializeFaceDetection, so
\* the initialization effect runs again.
\* isRecording set as soon as the recorder exists
RecordingBeforeStart(outcome, recording) == outcome # "constructorThrows"

\* setIsRecording(true) follows mediaRecorder.start() inside the try block
RecordingAfter(outcome, recording) ==
  IF outcome = "started" THEN TRUE ELSE recording

StartRecording ==
  /\ mounted
  /\ ~isRecording
  /\ IF NotReady(compositeStreamRef)
     THEN /\ error' = "Composite stream not ready"
          /\ SetLast("startNotReady", 0)
          /\ UNCHANGED <<isLoading, fdRuns, recVars>>
     ELSE \E outcome \in {"started", "constructorThrows", "startThrows"} :
            LET r == nSessions + 1 IN
            CASE outcome = "constructorThrows" ->
                   /\ error' = "Failed to start recording"
                   /\ SetLast("startFailed", 0)
                   /\ UNCHANGED <<isLoading, fdRuns, recVars>>
              [] outcome = "startThrows" ->
                   /\ nSessions < MaxSessions
                   /\ nSessions' = r
                   /\ recorders' = [recorders EXCEPT ![r] = NewRecorder("inactive")]
                   /\ recordedChunks' = <<>>
                   /\ mediaRecorderRef' = r
                   /\ error' = "Failed to start recording"
                   /\ isRecording' = RecordingAfter(outcome, isRecording)
                   /\ SetLast("startFailed", r)
                   /\ UNCHANGED <<isLoading, fdRuns, recordingDuration,
                                  intervalRef, intervals>>
              [] outcome = "started" ->
                   /\ nSessions < MaxSessions
                   /\ nSessions' = r
                   /\ recorders' = [recorders EXCEPT ![r] = NewRecorder("recording")]
                   /\ recordedChunks' = <<>>
                   /\ mediaRecorderRef' = r
                   /\ isRecording' = RecordingAfter(outcome, isRecording)
                   /\ recordingDuration' = ResetDuration(recordingDuration)
                   /\ intervalRef' = r
                   /\ intervals' = intervals \cup {r}
                   /\ initializeFaceDetection(TRUE)
                   /\ SetLast("started", r)
  /\ UNCHANGED <<storeVars, mounted, faceDetectionRef, nRetries, gumPending,
                 metaWait, streams, streamRef, videoEl, compositeStreamRef,
                 cameraRef, cameras>>
  /\ UNCHANGED <<drawVars, loaded, thumb>>

\* the test of isRecording left out
HasRecorder(recorder, recording) == recorder # 0

\* mediaRecorderRef.current && isRecording
Stoppable(recorder, recording) == recorder # 0 /\ recording

\* stopRecording(): a no-op unless a recorder exists and isRecording is true
StopRecording ==
  /\ mounted
  /\ IF Stoppable(mediaRecorderRef, isRecording)
     THEN /\ recorders' = [recorders EXCEPT ![mediaRecorderRef].state = "stopping"]
          /\ isRecording' = FALSE
          /\ intervals' = intervals \ {intervalRef}
          /\ intervalRef' = 0
          /\ initializeFaceDetection(TRUE)
          /\ SetLast("stopped", mediaRecorderRef)
     ELSE /\ SetLast("stopIgnored", 0)
          /\ UNCHANGED <<recorders, isRecording, intervals, intervalRef, error,
                         isLoading, fdRuns>>
  /\ UNCHANGED <<storeVars, mounted, faceDetectionRef, nRetries, gumPending,
                 metaWait, streams, streamRef, videoEl, compositeStreamRef,
                 cameraRef, cameras, recordingDuration, mediaRecorderRef,
                 recordedChunks, nSessions>>
  /\ UNCHANGED <<drawVars, loaded, thumb>>

\* the one-second timer t: setRecordingDuration(prev => prev + 1); ticks
\* counts the ticks of the session that started the timer
DurationTick(t) ==
  /\ t \in intervals
  /\ recordingDuration < MaxTicks
  /\ recordingDuration' = recordingDuration + 1
  /\ recorders' = [recorders EXCEPT ![t].ticks = recorders[t].ticks + 1]
  /\ UNCHANGED <<storeVars, error, last, camVars, isRecording, mediaRecorderRef,
                 recordedChunks, intervalRef, intervals, nSessions>>
  /\ UNCHANGED <<drawVars, loaded, thumb>>

\* the task queued by MediaRecorder.stop(): dataavailable with the data
\* gathered (pushed to the shared buffer when not empty), then stop, whose
\* handler calls saveRecording()
RecorderStopped(r) ==
  /\ recorders[r].state = "stopping"
  /\ \E size \in 0..1 : \E decodable \in BOOLEAN :
       LET chunks == IF size > 0 THEN Append(recordedChunks, r)
                     ELSE recordedChunks
       IN  /\ recordedChunks' = chunks
           /\ saveRecording(chunks, recorders[r].capturedDuration, decodable, r)
           /\ IF Len(chunks) = 0 THEN SetLast("finalizedEmpty", r)
              ELSE SetLast("finalized", r)
  /\ recorders' = [recorders EXCEPT ![r].state = "inactive"]
  /\ UNCHANGED <<now, objectStore, savedVideosLS, recordedVideos, selectedVideo,
                 liveUrls, successMessage, loads, idb, deleted, error, camVars,
                 isRecording, recordingDuration, mediaRecorderRef, intervalRef,
                 intervals, nSessions>>
  /\ UNCHANGED <<drawVars, loaded, thumb>>

\* ------------------------------------------------------------------ onResults
\* a Detection: boundingBox present or not, landmarks a list (its length) or
\* absent
NoLandmarks == 0 - 1
Detections == [boundingBox : BOOLEAN, landmarks : NoLandmarks..MaxLandmarks]
DetectionResults == UNION {[1..n -> Detections] : n \in 0..MaxDetections}

BlankCanvas == [frame |-> FALSE, rects |-> 0, points |-> 0]
NoResults == [seen |-> FALSE, detections |-> <<>>, shapesBefore |-> FALSE]

\* every detection counted, with or without bounding box
EveryDetection(detection) == 1

\* if (bbox) context.strokeRect(...): the rectangles one detection adds
StrokeRect(detection) == IF detection.boundingBox THEN 1 ELSE 0

\* if (detection.landmarks) detection.landmarks.forEach(fillRect): the points
\* one detection adds
FillRects(detection) ==
  IF detection.landmarks # NoLandmarks THEN detection.landmarks ELSE 0

\* drawFaceTracking(context, ...): results.detections.forEach over one canvas
RECURSIVE drawFaceTracking(_, _)
drawFaceTracking(canvas, detections) ==
  IF Len(detections) = 0 THEN canvas
  ELSE drawFaceTracking(
         [canvas EXCEPT !.rects = canvas.rects + StrokeRect(Head(detections)),
                        !.points = canvas.points + FillRects(Head(detections))],
         Tail(detections))

\* a result that always counts as showing faces
AlwaysFaces(detections) == TRUE

\* results.detections && results.detections.length > 0
hasfaces(detections) == Len(detections) > 0

\* onResults(results): returns when a surface is missing (after unmount the
\* refs are null); setting width and height resets both canvases, the overlay
\* is cleared, the video frame is painted on the composite canvas, and with
\* faces both canvases get the shapes
onResults(detections) ==
  /\ faceDetectionRef # 0
  /\ cameraRef # 0
  /\ IF ~mounted
     THEN UNCHANGED drawVars
     ELSE LET ctx == BlankCanvas
              compositeCtx == [BlankCanvas EXCEPT !.frame = TRUE]
          IN  /\ faceDetected' = hasfaces(detections)
              /\ overlay' = IF hasfaces(detections)
                            THEN drawFaceTracking(ctx, detections) ELSE ctx
              /\ composite' = IF hasfaces(detections)
                              THEN drawFaceTracking(compositeCtx, detections)
                              ELSE compositeCtx
              /\ lastResults' = [seen |-> TRUE, detections |-> detections,
                                 shapesBefore |->
                                   overlay.rects + overlay.points > 0]
  /\ UNCHANGED <<storeVars, error, last, camVars, recVars, loaded, thumb>>

\* ------------------------------------------- generateThumbnail, step by step
\* times in milliseconds; the duration of a payload is a multiple of 100 ms or
\* (a recorder's WebM without duration header) Infinity
OneSecond == 1000
Infinity == 0 - 1
Durations == {100 * k : k \in 0..MaxDuration} \cup {Infinity}

NoThumbnail == [pc |-> "none", duration |-> 0, currentTime |-> 0,
                drawn |-> FALSE, drawnAt |-> 0]

\* always one second
SeekToOneSecond(duration) == OneSecond

\* Math.min(1, video.duration / 2)
SeekPosition(duration) ==
  IF duration = Infinity THEN OneSecond
  ELSE IF duration \div 2 < OneSecond THEN duration \div 2 ELSE OneSecond

\* generateThumbnail(blob): video.src = URL.createObjectURL(blob); video.load()
ThumbnailStart(duration) ==
  /\ thumb.pc \in {"none", "resolved", "rejected"}
  /\ thumb' = [NoThumbnail EXCEPT !.pc = "loading", !.duration = duration]
  /\ UNCHANGED <<storeVars, error, last, camVars, recVars, drawVars, loaded>>

\* the loadedmetadata listener: the canvas is sized and the seek is started
ThumbnailLoadedMetadata ==
  /\ thumb.pc = "loading"
  /\ thumb' = [thumb EXCEPT !.pc = "seeking",
                            !.currentTime = SeekPosition(thumb.duration)]
  /\ UNCHANGED <<storeVars, error, last, camVars, recVars, drawVars, loaded>>

\* the seeked listener: drawImage of the current frame, toDataURL, resolve
ThumbnailSeeked ==
  /\ thumb.pc = "seeking"
  /\ thumb' = [thumb EXCEPT !.pc = "resolved", !.drawn = TRUE,
                            !.drawnAt = thumb.currentTime]
  /\ UNCHANGED <<storeVars, error, last, camVars, recVars, drawVars, loaded>>

\* the error listener (the payload does not decode): reject
ThumbnailError ==
  /\ thumb.pc \in {"loading", "seeking"}
  /\ thumb' = [thumb EXCEPT !.pc = "rejected"]
  /\ UNCHANGED <<storeVars, error, last, camVars, recVars, drawVars, loaded>>

\* ------------------------------------------------------- initial conditions
\* just mounted: the initialization effect has called initializeFaceDetection
InitCamMounted ==
  /\ mounted = TRUE
  /\ isLoading = TRUE
  /\ faceDetectionRef = 0
  /\ fdRuns = <<NewRun(TRUE)>>
  /\ nRetries = 0
  /\ gumPending = 0
  /\ metaWait = {}
  /\ streams = <<>>
  /\ streamRef = 0
  /\ videoEl = [handler |-> 0, pending |-> FALSE]
  /\ compositeStreamRef = 0
  /\ cameraRef = 0
  /\ cameras = {}

\* the first initialization has gone through: adapter of the first candidate,
\* one device stream, its composite stream and its Camera
InitCamReady ==
  /\ mounted = TRUE
  /\ isLoading = FALSE
  /\ faceDetectionRef = 1
  /\ fdRuns = <<>>
  /\ nRetries = 0
  /\ gumPending = 0
  /\ metaWait = {}
  /\ streams = <<LiveStream>>
  /\ streamRef = 1
  /\ videoEl = [handler |-> 1, pending |-> FALSE]
  /\ compositeStreamRef = 1
  /\ cameraRef = 1
  /\ cameras = {1}

InitDraw ==
  /\ loaded = FALSE
  /\ thumb = NoThumbnail
  /\ faceDetected = FALSE
  /\ overlay = BlankCanvas
  /\ composite = BlankCanvas
  /\ lastResults = NoResults

InitRecIdle ==
  /\ isRecording = FALSE
  /\ recordingDuration = 0
  /\ mediaRecorderRef = 0
  /\ recordedChunks = <<>>
  /\ intervalRef = 0
  /\ intervals = {}
  /\ recorders = [r \in 1..MaxSessions |-> NoRecorder]
  /\ nSessions = 0

\* ------------------------------------------- the Persistence Store by itself
\* saveRecording and loadSavedVideos called with inputs from small sets: the
\* recorder's stop callback and the initialization effect are their callers.
Finalize(chunks, capturedDuration, decodable) ==
  /\ saveRecording(chunks, capturedDuration, decodable, 0)
  /\ ClearLast
  /\ UNCHANGED <<now, objectStore, savedVideosLS, recordedVideos, selectedVideo,
                 liveUrls, successMessage, loads, idb, error, deleted,
                 camVars, recVars>>
  /\ UNCHANGED <<drawVars, loaded, thumb>>

LoadSavedVideos ==
  /\ loadSavedVideos
  /\ ClearLast
  /\ UNCHANGED <<now, objectStore, savedVideosLS, selectedVideo, liveUrls,
                 successMessage, saves, nSaves, error, deleted,
                 camVars, recVars>>
  /\ UNCHANGED <<drawVars, thumb>>

InitStoreOnly ==
  /\ InitStore
  /\ InitDraw
  /\ InitCamMounted
  /\ InitRecIdle
  /\ error = ""
  /\ last = NoLast

QueueLen == MaxSaves + MaxDeletes + MaxLoads * NumOld + MaxGets
VideoIds == OldId(NumOld)..MaxClock

NextStore ==
  \/ \E dec \in BOOLEAN : Finalize(<<1>>, 0, dec)
  \/ \E s \in 1..MaxSaves : SaveThumbnail(s)
  \/ \E i \in 1..QueueLen : SaveOpenSuccess(i)
  \/ \E i \in 1..QueueLen : \E quota \in BOOLEAN : SaveCommit(i, quota)
  \/ \E i \in 1..QueueLen : SaveOnComplete(i)
  \/ LoadSavedVideos
  \/ \E i \in 1..QueueLen : BackfillGet(i)
  \/ \E L \in 1..MaxLoads : \E k \in 1..(NumOld + MaxSaves) : BackfillThumbnail(L, k)
  \/ \E id \in VideoIds : DeleteClick(id)
  \/ \E i \in 1..QueueLen : DeleteCommit(i)
  \/ \E i \in 1..QueueLen : DeleteOnComplete(i)
  \/ ClockTick

SpecStore == InitStoreOnly /\ [][NextStore]_vars

\* ------------------------------------------- the thumbnail backfill by itself
\* A profile that holds only legacy entries (saved without thumbnail): the
\* record of each is stored and decodes, is stored and does not decode, or is
\* missing from the object store.
InitLegacy ==
  /\ now = 1
  /\ \E kind \in [1..NumLegacy -> {"decodable", "undecodable", "missing"}] :
       /\ objectStore = {OldRecord(k, kind[k] = "decodable") :
                           k \in {j \in 1..NumLegacy : kind[j] # "missing"}}
       /\ savedVideosLS = [k \in 1..NumLegacy |-> OldEntry(k, "")]
  /\ recordedVideos = <<>>
  /\ selectedVideo = 0
  /\ liveUrls = {}
  /\ successMessage = ""
  /\ saves = [s \in 1..MaxSaves |-> IdleSave]
  /\ nSaves = 0
  /\ loads = [l \in 1..MaxLoads |-> IdleLoad]
  /\ idb = <<>>
  /\ deleted = {}

InitBackfill ==
  /\ InitLegacy
  /\ InitDraw
  /\ InitCamMounted
  /\ InitRecIdle
  /\ error = ""
  /\ last = NoLast

NextBackfill ==
  \/ LoadSavedVideos
  \/ \E i \in 1..NumLegacy : BackfillGet(i)
  \/ \E L \in 1..MaxLoads : \E k \in 1..NumLegacy : BackfillThumbnail(L, k)

\* the mount effect calls loadSavedVideos; the browser delivers the events of
\* every request and settles every thumbnail promise
SpecBackfill ==
  /\ InitBackfill
  /\ [][NextBackfill]_vars
  /\ WF_vars(LoadSavedVideos)
  /\ \A i \in 1..NumLegacy : WF_vars(BackfillGet(i))
  /\ \A L \in 1..MaxLoads : \A k \in 1..NumLegacy : WF_vars(BackfillThumbnail(L, k))

\* ------------------------------------------------ the Library UI by itself
\* list, delete, play and download over the recordings of earlier page loads
NextLibrary ==
  \/ LoadSavedVideos
  \/ \E i \in 1..QueueLen : BackfillGet(i)
  \/ \E L \in 1..MaxLoads : \E k \in 1..(NumOld + MaxSaves) : BackfillThumbnail(L, k)
  \/ \E id \in VideoIds : DeleteClick(id)
  \/ \E i \in 1..QueueLen : DeleteCommit(i)
  \/ \E i \in 1..QueueLen : DeleteOnComplete(i)
  \/ \E id \in VideoIds : \E kind \in {"play", "download"} : GetClick(kind, id)
  \/ \E i \in 1..QueueLen : GetSuccess(i)
  \/ ClosePlayback
  \/ SuccessTimeout

SpecLibrary == InitStoreOnly /\ [][NextLibrary]_vars

\* --------------------------------------------------- the Recorder by itself
\* recording sessions and their saves, from a page whose camera is ready or
\* has just been mounted; the re-initializations they start stay pending
InitRec ==
  /\ InitStore
  /\ InitDraw
  /\ savedVideosLS = <<>>
  /\ InitCamMounted \/ InitCamReady
  /\ InitRecIdle
  /\ error = ""
  /\ last = NoLast

NextRec ==
  \/ StartRecording
  \/ StopRecording
  \/ \E t \in 1..MaxSessions : DurationTick(t)
  \/ \E r \in 1..MaxSessions : RecorderStopped(r)
  \/ \E s \in 1..MaxSaves : SaveThumbnail(s)
  \/ \E i \in 1..QueueLen : SaveOpenSuccess(i)
  \/ \E i \in 1..QueueLen : \E quota \in BOOLEAN : SaveCommit(i, quota)
  \/ \E i \in 1..QueueLen : SaveOnComplete(i)
  \/ ClockTick

SpecRec == InitRec /\ [][NextRec]_vars

\* ------------------------------------------------- recording sessions alone
\* the four callbacks of a recording session; the saves they start stay at
\* their first await
NextSession ==
  \/ StartRecording
  \/ StopRecording
  \/ \E t \in 1..MaxSessions : DurationTick(t)
  \/ \E r \in 1..MaxSessions : RecorderStopped(r)

SpecSession == InitRec /\ [][NextSession]_vars

\* ----------------------------------------------- initialization and teardown
\* face-detection and camera initialization, re-run by every change of
\* isRecording and by Retry, and the unmount of the component
InitCam ==
  /\ InitStore
  /\ InitDraw
  /\ savedVideosLS = <<>>
  /\ InitCamMounted
  /\ InitRecIdle
  /\ error = ""
  /\ last = NoLast

NextCam ==
  \/ \E j \in 1..(2 * MaxSessions + MaxRetries + 1) : \E ok \in BOOLEAN : FDAttempt(j, ok)
  \/ Retry
  \/ \E ok \in BOOLEAN : GumResolve(ok)
  \/ LoadedMetadata
  \/ StartRecording
  \/ StopRecording
  \/ Teardown

SpecCam == InitCam /\ [][NextCam]_vars

\* ------------------------------------------------------ the renderer alone
\* detection results arriving for the frames of a running camera, and unmount
InitRender ==
  /\ InitStore
  /\ savedVideosLS = <<>>
  /\ InitDraw
  /\ InitCamReady
  /\ InitRecIdle
  /\ error = ""
  /\ last = NoLast

NextRender ==
  \/ \E detections \in DetectionResults : onResults(detections)
  \/ Teardown

SpecRender == InitRender /\ [][NextRender]_vars

\* ------------------------------------------------- generateThumbnail alone
\* calls of generateThumbnail with payloads of every duration
NextThumbnail ==
  \/ \E duration \in Durations : ThumbnailStart(duration)
  \/ ThumbnailLoadedMetadata
  \/ ThumbnailSeeked
  \/ ThumbnailError

SpecThumbnail == InitRender /\ [][NextThumbnail]_vars

\* ==================================================================== claims
\* C1: every id of the metadata list has a record in the object store in
\* every reachable state, and a deleted id never reappears in the list through
\* an in-flight backfill or save write.  Stated with the one window the
\* delete itself opens (its record is removed, its own rewrite of the list is
\* still to come) left out.
DeleteWindow(id) ==
  \E i \in DOMAIN idb :
    idb[i].kind = "delete" /\ idb[i].pc = "complete" /\ idb[i].id = id

C1_ListedIdHasRecord ==
  \A id \in Ids(savedVideosLS) : id \in Keys(objectStore) \/ DeleteWindow(id)

\* C2: every record of the object store has its id in the metadata list,
\* except inside the window of the save that wrote it (record added, list not
\* yet rewritten); the entry of a completed save is never dropped by a later
\* rewrite of a delete of another id or of a backfill.
SaveWindow(id) ==
  \E i \in DOMAIN idb :
    idb[i].kind = "save" /\ idb[i].pc = "complete" /\ idb[i].id = id

C2_RecordIsListed ==
  \A r \in objectStore : r.id \in Ids(savedVideosLS) \/ SaveWindow(r.id)

\* C3: a segment that was started, ran for N duration ticks and was stopped
\* with at least one buffered chunk is persisted with duration N.  Stated of
\* every record a save has added to the object store.
C3_PersistedDurationIsTicks ==
  \A i \in DOMAIN idb :
    (idb[i].kind = "save" /\ idb[i].pc = "complete" /\ saves[idb[i].n].session # 0)
      => saves[idb[i].n].videoRecord.duration
           = recorders[saves[idb[i].n].session].ticks

\* C4: startRecording called while there is no composite stream sets the
\* error and changes nothing else: no recorder, no buffer reset, no timer, no
\* change of isRecording or of the duration counter.
C4_NotReadyOnlySetsError ==
  [][(StartRecording /\ compositeStreamRef = 0)
       => (/\ error' = "Composite stream not ready"
           /\ UNCHANGED <<storeVars, camVars, recVars>>)]_vars

C4_Witness ==
  /\ last.op = "startNotReady"
  /\ compositeStreamRef = 0
  /\ error = "Composite stream not ready"
  /\ ~isRecording
  /\ mediaRecorderRef = 0
  /\ intervals = {}

\* C5: after teardown every track (video and audio) of every device stream
\* that a camera initialization acquired is stopped, also after repeated
\* initializations and for a getUserMedia request that was in flight when
\* teardown ran.
C5_TeardownStopsEveryTrack ==
  (~mounted /\ gumPending = 0)
    => \A i \in DOMAIN streams :
         streams[i].video = "ended" /\ streams[i].audio = "ended"

\* C6: once a save has completed, the metadata list and the in-memory list
\* both hold exactly one entry with the id of the persisted record, its name,
\* timestamp, duration and size are the record's, and it has a thumbnail.
\* Stated of the state in which the save's oncomplete handler ends.
EntriesOf(list, id) == {i \in DOMAIN list : list[i].id = id}

EntryMatches(e, r) ==
  /\ e.name = r.name
  /\ e.timestamp = r.timestamp
  /\ e.duration = r.duration
  /\ e.size = r.size
  /\ e.thumbnail # ""

C6_SavedOnceInBothLists ==
  last.op = "saveOnComplete" =>
    /\ last.arg \in Keys(objectStore)
    /\ \A list \in {Parse(savedVideosLS, 0), recordedVideos} :
         /\ Cardinality(EntriesOf(list, last.arg)) = 1
         /\ \A i \in EntriesOf(list, last.arg) :
              EntryMatches(list[i], RecordOf(objectStore, last.arg))

\* C7: after deleteVideo(id) has completed, neither a list operation (which
\* returns the parsed metadata list) nor the in-memory list contains id.
C7_DeletedIdNotListed ==
  \A id \in deleted :
    /\ id \notin Ids(Parse(savedVideosLS, 0))
    /\ id \notin Ids(recordedVideos)

\* C8: after deleteVideo(id) has completed, a get of id (playVideo or
\* downloadVideo) ends in an error outcome, never silently.
C8_GetOfDeletedIsNotSilent ==
  ~(last.op = "nothing" /\ last.arg \in deleted)

\* C9: every successful startRecording sets the duration counter to 0 before
\* any tick of its session is applied, a second session starts from 0 again:
\* while recording the counter is the number of ticks of the running session.
C9_CounterCountsSessionTicks ==
  isRecording => recordingDuration = recorders[mediaRecorderRef].ticks

C9_Witness ==
  /\ last.op = "started"
  /\ nSessions = 2
  /\ isRecording
  /\ recorders[1].ticks > 0
  /\ recorders[2].capturedDuration > 0
  /\ recordingDuration = 0

\* C10: finalization with an empty chunk buffer persists nothing: no
\* thumbnail generation is started, the object store and the metadata list
\* are unchanged, and no error is set.
C10_EmptyFinalizationPersistsNothing ==
  [][((\E r \in 1..MaxSessions : RecorderStopped(r)) /\ Len(recordedChunks') = 0)
       => UNCHANGED <<objectStore, savedVideosLS, recordedVideos, saves, nSaves,
                      idb, loads, error>>]_vars

C10_Witness ==
  /\ last.op = "finalizedEmpty"
  /\ recorders[last.arg].state = "inactive"
  /\ recordedChunks = <<>>
  /\ nSaves = 0
  /\ objectStore = {}
  /\ savedVideosLS = <<>>

\* C11: for a result with N >= 1 detections, exactly N rectangles and as
\* many points as the detections have landmarks are drawn on the overlay and
\* on the composite surface, also when some detections carry no bounding box
\* or no landmark list.
LandmarkCount(detections) ==
  Cardinality({<<i, j>> \in (DOMAIN detections) \X (1..MaxLandmarks + 1) :
                 j <= detections[i].landmarks})

C11_RectanglePerDetection ==
  (lastResults.seen /\ Len(lastResults.detections) >= 1) =>
    /\ overlay.rects = Len(lastResults.detections)
    /\ overlay.points = LandmarkCount(lastResults.detections)
    /\ composite.rects = overlay.rects
    /\ composite.points = overlay.points

\* C11 as the code has it: one rectangle per detection that carries a
\* bounding box, one point per landmark of the detections that carry a list,
\* the same on both surfaces.
BoxCount(detections) ==
  Cardinality({i \in DOMAIN detections : detections[i].boundingBox})

C11_RectanglePerBoundingBox ==
  (lastResults.seen /\ Len(lastResults.detections) >= 1) =>
    /\ overlay.rects = BoxCount(lastResults.detections)
    /\ overlay.points = LandmarkCount(lastResults.detections)
    /\ composite.rects = overlay.rects
    /\ composite.points = overlay.points

C11_Witness ==
  /\ lastResults.seen
  /\ Len(lastResults.detections) = 2
  /\ ~lastResults.detections[1].boundingBox
  /\ lastResults.detections[1].landmarks = 2
  /\ lastResults.detections[2].boundingBox
  /\ lastResults.detections[2].landmarks = NoLandmarks
  /\ overlay.rects = 1
  /\ overlay.points = 2
  /\ composite.frame

\* C12: for a result with zero detections, after any earlier results, the
\* overlay holds no shapes, no rectangle or point is on either surface, the
\* composite surface is painted with the video frame, and faceDetected is
\* false.
C12_NoDetectionsNoShapes ==
  (lastResults.seen /\ Len(lastResults.detections) = 0) =>
    /\ overlay = BlankCanvas
    /\ composite = [BlankCanvas EXCEPT !.frame = TRUE]
    /\ faceDetected = FALSE

C12_Witness ==
  /\ lastResults.seen
  /\ Len(lastResults.detections) = 0
  /\ lastResults.shapesBefore
  /\ overlay = BlankCanvas
  /\ composite.frame
  /\ ~faceDetected

\* C13: when a storage step of save, delete, play or download fails, the
\* failure is reported as an error message, the operation is aborted and the
\* other store is left unchanged.  Stated of the failed object-store write
\* of a save: the error is set and the metadata list has no entry of the id
\* that the failed save could have appended.
C13_FailedAddIsReported ==
  last.op = "addFailed" =>
    /\ error = "Failed to save recording"
    /\ \A i \in DOMAIN savedVideosLS :
         savedVideosLS[i].id = last.arg => last.arg \in Keys(objectStore)

\* C14: every run of initializeFaceDetection ends with isLoading false, when
\* a candidate succeeds and when all candidates fail; isLoading never stays
\* true once the runs have finished.
C14_LoadingClearedAfterRun ==
  /\ last.op \in {"fdReady", "fdFailed"} => ~isLoading
  /\ fdRuns = <<>> => ~isLoading

C14_Witness ==
  /\ last.op = "fdFailed"
  /\ fdRuns = <<>>
  /\ faceDetectionRef = 0
  /\ error = FDError
  /\ ~isLoading

\* C15: the Capture Manager never starts (no device stream is requested)
\* after an initialization in which all candidates failed, for the first
\* initialization and for every re-run after an earlier success.  Stated of
\* the callback that ends a failed run: it requests no device stream.
C15_NoCameraAfterFailedInit ==
  ~(last.op = "fdFailed" /\ last.arg = 1)

\* C16: every blob URL created by playVideo is revoked when playback is
\* closed: with playback closed and no play in flight, no URL created by
\* playVideo is live.
C16_ClosedPlaybackLeavesNoUrl ==
  (selectedVideo = 0 /\ InFlight("play") = 0) => liveUrls = {}

\* C17: after the first loadSavedVideos has run, between callbacks the
\* in-memory list equals the metadata list of the key-value store, after any
\* interleaving of save, delete and backfill completions, in particular
\* after each deleteVideo completes.
C17_MemoryListEqualsStoredList ==
  loaded => Stringify(recordedVideos) = savedVideosLS

C17_Witness ==
  /\ loaded
  /\ last.op = "deleteOnComplete"
  /\ nSaves > 0
  /\ \E L \in 1..MaxLoads : loads[L] # IdleLoad
  /\ Len(recordedVideos) > 0
  /\ Stringify(recordedVideos) = savedVideosLS

\* C18: for a payload of duration D seconds generateThumbnail sets the seek
\* position to min(1, D/2) seconds after the metadata is loaded, and
\* rasterizes the frame only after the seek has completed.
MinOfOneAndHalf(d) ==
  IF d = Infinity \/ d >= 2 * OneSecond THEN OneSecond ELSE d \div 2

AppendedId(id) ==
  /\ Len(savedVideosLS') = Len(savedVideosLS) + 1
  /\ SubSeq(savedVideosLS', 1, Len(savedVideosLS)) = savedVideosLS
  /\ savedVideosLS'[Len(savedVideosLS')].id = id

C19_MetadataAfterWrite ==
  [][/\ \A id \in VideoIds :
          AppendedId(id) =>
            \/ \E i \in DOMAIN idb :
                 /\ idb[i].kind = "save"
                 /\ idb[i].pc = "complete"
                 /\ idb[i].id = id
                 /\ saves[idb[i].n].videoRecord.id = id
            \/ id \in Keys(objectStore)
            \/ id \in deleted
     /\ (last'.op = "saveFailed" /\ saves' # saves)
          => UNCHANGED <<objectStore, savedVideosLS, idb>>]_vars

C19_Witness ==
  /\ last.op = "saveOnComplete"
  /\ last.arg \in Ids(savedVideosLS)
  /\ savedVideosLS[Len(savedVideosLS)].id = last.arg
  /\ last.arg \in Keys(objectStore)

\* C20: stopRecording has an effect only in Recording.  Called in Idle it
\* signals no recorder and changes no state; called in Recording it signals
\* the recorder to finalize, sets Idle and cancels the duration timer; the
\* duration counter never advances while Idle.
C20_StopOnlyWhileRecording ==
  [][/\ (StopRecording /\ ~isRecording)
          => UNCHANGED <<storeVars, error, camVars, recVars, drawVars>>
     /\ (StopRecording /\ isRecording /\ mediaRecorderRef # 0)
          => /\ recorders[mediaRecorderRef].state = "recording"
             /\ recorders'[mediaRecorderRef].state = "stopping"
             /\ ~isRecording'
             /\ intervals' = {}
             /\ intervalRef' = 0
     /\ ~isRecording
          => /\ recordingDuration' <= recordingDuration
             /\ intervals = {}]_vars

C20_Witness ==
  /\ last.op = "stopIgnored"
  /\ ~isRecording
  /\ mediaRecorderRef # 0
  /\ recorders[mediaRecorderRef].state = "inactive"
  /\ recorders[mediaRecorderRef].ticks > 0
  /\ recordingDuration = recorders[mediaRecorderRef].ticks
  /\ intervals = {}

\* C21: no two persisted recordings share an id: the ids in the metadata
\* list are pairwise distinct and the ids in the object store are pairwise
\* distinct, after any sequence of saves (also of two finalizations that read
\* the same clock value), deletes and backfills.
C21_IdsAreDistinct ==
  /\ \A i, j \in DOMAIN savedVideosLS :
       savedVideosLS[i].id = savedVideosLS[j].id => i = j
  /\ \A r, q \in objectStore : r.id = q.id => r = q

\* C22: during list, a failing backfill of one legacy entry (its record is
\* missing, or its thumbnail cannot be generated) aborts nothing: every
\* legacy entry whose payload is stored and decodable eventually has its
\* thumbnail in the stored metadata list and in the in-memory list, and no
\* error message is ever set.
HasThumbnail(list, id) ==
  \E i \in DOMAIN list : list[i].id = id /\ list[i].thumbnail # ""

Backfillable(id) ==
  /\ id \in Keys(objectStore)
  /\ RecordOf(objectStore, id).data.decodable

C22_BackfillSkipsFailures ==
  /\ [](error = "")
  /\ \A k \in 1..NumLegacy :
       (loaded /\ Backfillable(OldId(k)))
         ~> (/\ HasThumbnail(savedVideosLS, OldId(k))
             /\ HasThumbnail(recordedVideos, OldId(k)))

C22_Witness ==
  /\ loaded
  /\ \A L \in 1..MaxLoads : loads[L] = IdleLoad
  /\ OldId(1) \notin Keys(objectStore)
  /\ ~HasThumbnail(savedVideosLS, OldId(1))
  /\ OldId(2) \in Keys(objectStore) /\ ~Backfillable(OldId(2))
  /\ ~HasThumbnail(savedVideosLS, OldId(2))
  /\ Backfillable(OldId(3))
  /\ HasThumbnail(savedVideosLS, OldId(3))
  /\ HasThumbnail(recordedVideos, OldId(3))
  /\ error = ""

\* C23: initializeFaceDetection attempts the candidate locations strictly in
\* list order (a call starts at the first candidate and goes from a failed
\* candidate to the next one), makes no attempt after a success (the call
\* ends with it), installs the instance of the candidate that succeeded as
\* the adapter, and sets the initialization error only when the last
\* candidate has failed after all the others.
RunStarted ==
  \E thenLoad \in BOOLEAN :
    /\ fdRuns' = AddRun(fdRuns, [cand |-> 1, thenLoad |-> thenLoad])
    /\ UNCHANGED faceDetectionRef

RunMovedOn(j) ==
  /\ fdRuns[j].cand < NumCandidates
  /\ fdRuns' = AddRun(RemoveAt(fdRuns, j),
                      [fdRuns[j] EXCEPT !.cand = fdRuns[j].cand + 1])
  /\ UNCHANGED <<faceDetectionRef, error>>

RunSucceeded(j) ==
  /\ fdRuns' = RemoveAt(fdRuns, j)
  /\ last'.op = "fdReady"
  /\ faceDetectionRef' = fdRuns[j].cand
  /\ error' # FDError \/ error = FDError

RunFailed(j) ==
  /\ fdRuns' = RemoveAt(fdRuns, j)
  /\ last'.op = "fdFailed"
  /\ fdRuns[j].cand = NumCandidates
  /\ UNCHANGED faceDetectionRef

C23_CandidatesInOrder ==
  [][/\ fdRuns' # fdRuns
          => \/ RunStarted
             \/ \E j \in DOMAIN fdRuns :
                  RunMovedOn(j) \/ RunSucceeded(j) \/ RunFailed(j)
     /\ fdRuns' = fdRuns => UNCHANGED faceDetectionRef
     /\ (error' = FDError /\ error # FDError)
          => \E j \in DOMAIN fdRuns : RunFailed(j)]_vars

C23_Witness ==
  /\ last.op = "fdReady"
  /\ faceDetectionRef = 2
  /\ fdRuns = <<>>
  /\ ~isLoading
  /\ error = ""

\* C24: when creating or starting the recorder fails in startRecording with
\* a composite stream present, the error message is set, isRecording stays
\* false and no duration timer runs; a stopRecording that follows changes
\* nothing, and the conditions of a successful startRecording still hold.
C24_FailedStartStaysIdle ==
  [][/\ (StartRecording /\ last'.op = "startFailed")
          => /\ compositeStreamRef # 0
             /\ error' = "Failed to start recording"
             /\ ~isRecording'
             /\ intervals' = {}
             /\ intervalRef' = intervalRef
             /\ recordingDuration' = recordingDuration
             /\ mounted' /\ compositeStreamRef' # 0
     /\ (StopRecording /\ last.op = "startFailed")
          => UNCHANGED <<storeVars, error, camVars, recVars, drawVars>>]_vars

C24_Witness ==
  /\ last.op = "startFailed"
  /\ last.arg = 1
  /\ mediaRecorderRef = 1
  /\ recorders[1].state = "inactive"
  /\ compositeStreamRef # 0
  /\ error = "Failed to start recording"
  /\ ~isRecording
  /\ intervals = {}

\* C25: the payload persisted for a recording session consists exactly of
\* the non-empty chunks its own recorder emitted, in emission order, for
\* every interleaving of stop, start and the recorders' callbacks: the blob
\* of every save started by the stop callback of recorder r is that
\* recorder's one chunk.
C25_PayloadIsOwnChunks ==
  \A s \in 1..MaxSaves :
    (saves[s].pc # "none" /\ saves[s].session # 0)
      => saves[s].blob.chunks = <<saves[s].session>>

\* C26: starting or stopping a recording leaves the capture pipeline
\* unchanged: it starts no initialization of the detection adapter, requests
\* no device stream, replaces no composite stream and starts no capture
\* loop; at most one device stream is live and at most one capture loop runs
\* at any time.
LiveStreams == {i \in DOMAIN streams : streams[i].video = "live"}

OnePipeline ==
  /\ Cardinality(LiveStreams) + gumPending <= 1
  /\ Cardinality(cameras) <= 1

C26_RecordingLeavesPipeline ==
  [][/\ (StartRecording \/ StopRecording)
          => UNCHANGED <<fdRuns, isLoading, gumPending, streams,
                         compositeStreamRef, cameraRef, cameras>>
     /\ OnePipeline']_vars

====
